---- MODULE Spec2Model ----
(***************************************************************************)
(* Voice AI tutor pipeline (skills/voice-ai-tutor/scripts/voice_pipeline.py)*)
(* as a state machine: main() runs one request through transcription,      *)
(* context retrieval, streamed generation and speech synthesis, in simple  *)
(* or in streaming mode.  Text is a sequence of one-character strings, an  *)
(* audio blob a sequence of units each carrying the text it was made from. *)
(***************************************************************************)
EXTENDS Integers, Sequences, FiniteSets, TLC

\* ------------------------------------------------------------------ bounds
\* Increments one response is delivered in, characters of one response (the
\* code caps a response with max_tokens), and the largest --chunk-size tried.
MaxIncs == 3
MaxResponseLen == 3
MaxChunkSize == 2
\* Transcript ingestion: segments of one transcript, the last second of its
\* timeline, and the largest target duration and overlap tried.
MaxSegs == 3
MaxTime == 4
MaxTarget == 2
MaxOverlap == 2

Alphabet == {"a", " ", "."}
Whitespace == {" "}
Terminators == {".", "!", "?"}

Texts(n) == UNION {[1..k -> Alphabet] : k \in 0..n}
\* The increments the provider may deliver after `sofar` characters.
Increments(sofar) == Texts(MaxResponseLen - sofar)

\* ------------------------------------------------------------ configuration
DEFAULT_HEBREW_VOICE_ID == "21m00Tcm4TlvDq8ikWAM"
DEFAULT_ENGLISH_VOICE_ID == "21m00Tcm4TlvDq8ikWAM"

None == <<>>
Some(x) == <<x>>

\* The transcript the provider returns for the audio.
TranscriptText == "question"

Args ==
    [audio_exists : BOOLEAN,
     stream : BOOLEAN,
     chunk_size : 1..MaxChunkSize,
     language : {"he", "en"},
     voice_id : {"", "custom"},
     output_audio : BOOLEAN]

Env == [openai : BOOLEAN, anthropic : BOOLEAN, eleven : BOOLEAN]

\* ------------------------------------------------------------ pure helpers
RECURSIVE Join(_)
Join(parts) == IF parts = <<>> THEN <<>> ELSE Head(parts) \o Join(Tail(parts))

RECURSIVE LStrip(_)
LStrip(s) == IF s # <<>> /\ Head(s) \in Whitespace THEN LStrip(Tail(s)) ELSE s

RECURSIVE RStrip(_)
RStrip(s) ==
    IF s # <<>> /\ s[Len(s)] \in Whitespace
    THEN RStrip(SubSeq(s, 1, Len(s) - 1))
    ELSE s

\* Variant: only leading whitespace is removed.
StripLeadingOnly(s) == LStrip(s)

Strip(s) == RStrip(LStrip(s))

EndsWithTerminator(chunk) == chunk # <<>> /\ chunk[Len(chunk)] \in Terminators

\* Variant: the threshold counts only once it is exceeded.
BoundaryReachedStrict(current_text, chunk, chunk_size) ==
    Len(current_text) > chunk_size \/ EndsWithTerminator(chunk)

\* Variant: only the threshold ends a chunk.
BoundaryReachedByLengthOnly(current_text, chunk, chunk_size) ==
    Len(current_text) >= chunk_size

BoundaryReached(current_text, chunk, chunk_size) ==
    Len(current_text) >= chunk_size \/ EndsWithTerminator(chunk)

\* Variant: the text is tested before it is stripped.
HasAnyText(current_text) == current_text # <<>>

HasSpeakableText(current_text) == Strip(current_text) # <<>>

\* Variant: the remainder is flushed only when it ends a sentence.
HasRemainingSentence(buf) ==
    /\ buf # <<>>
    /\ Strip(Join(buf)) # <<>>
    /\ EndsWithTerminator(Strip(Join(buf)))

HasRemainingText(buf) == buf # <<>> /\ Strip(Join(buf)) # <<>>

VoiceFor(language) ==
    IF language = "he" THEN DEFAULT_HEBREW_VOICE_ID ELSE DEFAULT_ENGLISH_VOICE_ID

AudioOf(text) == <<text>>

RECURSIVE Reverse(_)
Reverse(q) == IF q = <<>> THEN <<>> ELSE Append(Reverse(Tail(q)), Head(q))

\* Variant: the blobs are joined newest first.
JoinAudioNewestFirst(chunks) == Join(Reverse(chunks))

JoinAudio(chunks) == Join(chunks)

ContextFor(query) == <<"Context for query", query>>

NewMetrics ==
    [stt_start |-> 0, stt_end |-> 0, rag_start |-> 0, rag_end |-> 0,
     llm_start |-> 0, llm_first_token |-> 0, llm_end |-> 0,
     tts_start |-> 0, tts_end |-> 0]

\* Variant: the synthesis duration is computed whether or not tts_end was set.
ReportUnguarded(m) ==
    [stt_latency_ms |-> IF m.stt_end # 0 THEN (m.stt_end - m.stt_start) * 1000 ELSE 0,
     rag_latency_ms |-> IF m.rag_end # 0 THEN (m.rag_end - m.rag_start) * 1000 ELSE 0,
     llm_first_token_ms |->
        IF m.llm_first_token # 0 THEN (m.llm_first_token - m.llm_start) * 1000 ELSE 0,
     llm_total_ms |-> IF m.llm_end # 0 THEN (m.llm_end - m.llm_start) * 1000 ELSE 0,
     tts_latency_ms |-> (m.tts_end - m.tts_start) * 1000,
     total_latency_ms |->
        IF m.tts_end # 0 /\ m.stt_start # 0 THEN (m.tts_end - m.stt_start) * 1000 ELSE 0]

Report(m) ==
    [stt_latency_ms |-> IF m.stt_end # 0 THEN (m.stt_end - m.stt_start) * 1000 ELSE 0,
     rag_latency_ms |-> IF m.rag_end # 0 THEN (m.rag_end - m.rag_start) * 1000 ELSE 0,
     llm_first_token_ms |->
        IF m.llm_first_token # 0 THEN (m.llm_first_token - m.llm_start) * 1000 ELSE 0,
     llm_total_ms |-> IF m.llm_end # 0 THEN (m.llm_end - m.llm_start) * 1000 ELSE 0,
     tts_latency_ms |-> IF m.tts_end # 0 THEN (m.tts_end - m.tts_start) * 1000 ELSE 0,
     total_latency_ms |->
        IF m.tts_end # 0 /\ m.stt_start # 0 THEN (m.tts_end - m.stt_start) * 1000 ELSE 0]

\* Variant: the transcript slot is filled with an empty string.
PipelineResultNoTranscript(transcript, response, audio, m) ==
    [transcript |-> "",
     response |-> response,
     audio_size |-> Len(audio),
     metrics |-> Report(m)]

PipelineResult(transcript, response, audio, m) ==
    [transcript |-> transcript,
     response |-> response,
     audio_size |-> Len(audio),
     metrics |-> Report(m)]

\* ------------------------------------------------------------------- state
\* The attribute main() sets for each key of the result's metrics:
\* key.replace('_ms', '').replace('_latency', '').
AttributeFor ==
    [stt_latency_ms |-> "stt",
     rag_latency_ms |-> "rag",
     llm_first_token_ms |-> "llm_first_token",
     llm_total_ms |-> "llm_total",
     tts_latency_ms |-> "tts",
     total_latency_ms |-> "total"]

\* The VoicePipelineMetrics object main() rebuilds from a result's metrics: a
\* fresh object on which each attribute is set to the figure in seconds.
Rebuild(report) ==
    LET set == {AttributeFor[key] : key \in DOMAIN report}
    IN  [a \in DOMAIN NewMetrics \cup set |->
            IF a \in set
            THEN report[CHOOSE key \in DOMAIN report : AttributeFor[key] = a] \div 1000
            ELSE NewMetrics[a]]

\* What print_report() shows for the rebuilt object.
PrintedReport(report) == Report(Rebuild(report))

VARIABLES
    args,             \* parsed command line
    env,              \* provider credentials read at import
    pc,               \* where the request is
    now,              \* the clock: the value the next time.time() returns
    metrics,          \* VoicePipelineMetrics
    user_message,     \* transcription["text"]
    context,          \* retrieved context, None before retrieval
    first_token,      \* the generator's first_token flag
    response_chunks,  \* increments received so far
    buffer,           \* increments accumulated for the next chunk
    audio_chunks,     \* audio returned for the chunks synthesized so far
    calls,            \* log of the synthesize_speech calls, in dispatch order
    full_audio,       \* the assembled audio
    out_file,         \* the output audio file: None, or Some(its content)
    result,           \* what the pipeline returned to main: None, or Some(dict)
    exit_code,        \* -1 while running, else the process exit status
    printed,          \* the latency report main printed: None, or Some(report)
    \* ingest_transcripts.py, chunk_segments:
    segments,         \* the transcript segments it is called with
    target_duration,  \* seconds a chunk should span
    overlap,          \* seconds of the previous chunk repeated in the next
    ipc,              \* where the call is
    seg_pos,          \* position of the outer loop in segments
    chunks,           \* the chunks made so far
    current_chunk_text, \* texts collected for the next chunk
    current_start,    \* start time of the next chunk
    chunk_index       \* number of the next chunk

vars == <<args, env, pc, now, metrics, user_message, context, first_token,
          response_chunks, buffer, audio_chunks, calls, full_audio, out_file,
          result, exit_code, printed,
          segments, target_duration, overlap, ipc, seg_pos, chunks,
          current_chunk_text, current_start, chunk_index>>

pipeline_vars ==
    <<args, env, pc, now, metrics, user_message, context, first_token,
      response_chunks, buffer, audio_chunks, calls, full_audio, out_file,
      result, exit_code, printed>>

ingest_vars ==
    <<segments, target_duration, overlap, ipc, seg_pos, chunks,
      current_chunk_text, current_start, chunk_index>>

\* chunk_segments is not running.
IngestIdle ==
    /\ segments = <<>>
    /\ target_duration = 1
    /\ overlap = 0
    /\ ipc = "idle"
    /\ seg_pos = 1
    /\ chunks = <<>>
    /\ current_chunk_text = <<>>
    /\ current_start = 0
    /\ chunk_index = 0

Init ==
    /\ args \in Args
    /\ env \in Env
    /\ pc = "main"
    /\ now = 1
    /\ metrics = NewMetrics
    /\ user_message = ""
    /\ context = None
    /\ first_token = TRUE
    /\ response_chunks = <<>>
    /\ buffer = <<>>
    /\ audio_chunks = <<>>
    /\ calls = <<>>
    /\ full_audio = <<>>
    /\ out_file = None
    /\ result = None
    /\ exit_code = -1
    /\ printed = None
    /\ IngestIdle


\* ----------------------------------------------------------------- helpers
\* `upto` is the number of increments received when the call was made.
Call(site, text, tracked, output_file) ==
    [site |-> site,
     upto |-> Len(response_chunks),
     text |-> text,
     voice_id |-> VoiceFor(args.language),
     tracked |-> tracked,
     output_file |-> output_file,
     status |-> IF env.eleven THEN "inflight" ELSE "nokey",
     audio |-> <<>>]

LastCall == calls[Len(calls)]

\* Variant: a chunk's call in the loop is started as a task and not awaited.
CallerDetached(site) == IF site = "loop" THEN "llm_next" ELSE "synth_call"

\* Where the caller is while the call it awaits is with the provider.
CallerDuring(site) == "synth_call"

\* Variant: the handler hands back what had been produced before the failure.
RaiseKeepingPartial ==
    /\ pc' = "failed"
    /\ exit_code' = 1
    /\ result' = Some(PipelineResult(user_message, Join(response_chunks),
                                     Join(audio_chunks), metrics))
    /\ out_file' = out_file

\* An exception leaves the pipeline function and reaches main's handler.
Raise ==
    /\ pc' = "failed"
    /\ exit_code' = 1
    /\ result' = None
    /\ out_file' = out_file

\* Variant: in streaming mode the returned audio is put in front of the list.
ContinueNewestFirst(site, audio) ==
    CASE site = "loop" ->
            /\ audio_chunks' = <<audio>> \o audio_chunks
            /\ buffer' = <<>>
            /\ pc' = "llm_next"
            /\ UNCHANGED <<full_audio, result>>
      [] site = "tail" ->
            /\ audio_chunks' = <<audio>> \o audio_chunks
            /\ pc' = "assemble"
            /\ UNCHANGED <<buffer, full_audio, result>>
      [] site = "simple" ->
            /\ full_audio' = audio
            /\ result' = Some(PipelineResult(user_message, Join(response_chunks),
                                             audio, metrics'))
            /\ pc' = "report"
            /\ UNCHANGED <<audio_chunks, buffer>>

\* Variant: the loop does not empty the buffer after a chunk.
ContinueKeepingBuffer(site, audio) ==
    CASE site = "loop" ->
            /\ audio_chunks' = Append(audio_chunks, audio)
            /\ pc' = "llm_next"
            /\ UNCHANGED <<buffer, full_audio, result>>
      [] site = "tail" ->
            /\ audio_chunks' = Append(audio_chunks, audio)
            /\ pc' = "assemble"
            /\ UNCHANGED <<buffer, full_audio, result>>
      [] site = "simple" ->
            /\ full_audio' = audio
            /\ result' = Some(PipelineResult(user_message, Join(response_chunks),
                                             audio, metrics'))
            /\ pc' = "report"
            /\ UNCHANGED <<audio_chunks, buffer>>

\* The code after `await synthesize_speech(...)` at each of its three call sites.
Continue(site, audio) ==
    CASE site = "loop" ->
            /\ audio_chunks' = Append(audio_chunks, audio)
            /\ buffer' = <<>>
            /\ pc' = "llm_next"
            /\ UNCHANGED <<full_audio, result>>
      [] site = "tail" ->
            /\ audio_chunks' = Append(audio_chunks, audio)
            /\ pc' = "assemble"
            /\ UNCHANGED <<buffer, full_audio, result>>
      [] site = "simple" ->
            /\ full_audio' = audio
            /\ result' = Some(PipelineResult(user_message, Join(response_chunks),
                                             audio, metrics'))
            /\ pc' = "report"
            /\ UNCHANGED <<audio_chunks, buffer>>

\* ----------------------------------------------------------------- actions
\* main(): the pre-flight check of the audio file, then the pipeline is entered.
Main ==
    /\ pc = "main"
    /\ IF args.audio_exists
       THEN pc' = "transcribe" /\ UNCHANGED exit_code
       ELSE pc' = "exited" /\ exit_code' = 1
    /\ UNCHANGED <<args, env, now, metrics, user_message, context, first_token,
                   response_chunks, buffer, audio_chunks, calls, full_audio,
                   out_file, result>>
    /\ UNCHANGED <<printed, ingest_vars>>

\* transcribe_audio up to the provider call.
TranscribeStart ==
    /\ pc = "transcribe"
    /\ metrics' = [metrics EXCEPT !.stt_start = now]
    /\ now' = now + 1
    /\ IF env.openai
       THEN pc' = "stt_call" /\ UNCHANGED <<exit_code, result, out_file>>
       ELSE Raise
    /\ UNCHANGED <<args, env, user_message, context, first_token, response_chunks,
                   buffer, audio_chunks, calls, full_audio>>
    /\ UNCHANGED <<printed, ingest_vars>>

\* Variant: the transcript goes to generation without a retrieval.
TranscribeOkSkippingRetrieval ==
    /\ pc = "stt_call"
    /\ metrics' = [metrics EXCEPT !.stt_end = now]
    /\ now' = now + 1
    /\ user_message' = TranscriptText
    /\ pc' = "generate"
    /\ UNCHANGED <<args, env, context, first_token, response_chunks, buffer,
                   audio_chunks, calls, full_audio, out_file, result, exit_code>>
    /\ UNCHANGED <<printed, ingest_vars>>

\* The transcription provider answers.
TranscribeOk ==
    /\ pc = "stt_call"
    /\ metrics' = [metrics EXCEPT !.stt_end = now]
    /\ now' = now + 1
    /\ user_message' = TranscriptText
    /\ pc' = "retrieve"
    /\ UNCHANGED <<args, env, context, first_token, response_chunks, buffer,
                   audio_chunks, calls, full_audio, out_file, result, exit_code>>
    /\ UNCHANGED <<printed, ingest_vars>>

\* Variant: stt_end is stamped although the provider raised.
TranscribeErrorStamped ==
    /\ pc = "stt_call"
    /\ metrics' = [metrics EXCEPT !.stt_end = now]
    /\ now' = now + 1
    /\ Raise
    /\ UNCHANGED <<args, env, user_message, context, first_token,
                   response_chunks, buffer, audio_chunks, calls, full_audio>>
    /\ UNCHANGED <<printed, ingest_vars>>

\* The audio cannot be read or the transcription provider raises.
TranscribeError ==
    /\ pc = "stt_call"
    /\ Raise
    /\ UNCHANGED <<args, env, now, metrics, user_message, context, first_token,
                   response_chunks, buffer, audio_chunks, calls, full_audio>>
    /\ UNCHANGED <<printed, ingest_vars>>

\* retrieve_context: a placeholder that calls no provider.
RetrieveContext ==
    /\ pc = "retrieve"
    /\ metrics' = [metrics EXCEPT !.rag_start = now, !.rag_end = now + 1]
    /\ now' = now + 2
    /\ context' = Some(ContextFor(user_message))
    /\ pc' = "generate"
    /\ UNCHANGED <<args, env, user_message, first_token, response_chunks, buffer,
                   audio_chunks, calls, full_audio, out_file, result, exit_code>>
    /\ UNCHANGED <<printed, ingest_vars>>

\* Variant: the generation credential is not looked at.
GenerateStartUnchecked ==
    /\ pc = "generate"
    /\ metrics' = [metrics EXCEPT !.llm_start = now]
    /\ now' = now + 1
    /\ pc' = "llm_next"
    /\ UNCHANGED <<args, env, user_message, context, first_token, response_chunks,
                   buffer, audio_chunks, calls, full_audio, exit_code, result,
                   out_file>>
    /\ UNCHANGED <<printed, ingest_vars>>

\* stream_claude_response from its first line to the opened provider stream.
GenerateStart ==
    /\ pc = "generate"
    /\ metrics' = [metrics EXCEPT !.llm_start = now]
    /\ now' = now + 1
    /\ \/ /\ env.anthropic
          /\ pc' = "llm_next"
          /\ UNCHANGED <<exit_code, result, out_file>>
       \/ Raise
    /\ UNCHANGED <<args, env, user_message, context, first_token, response_chunks,
                   buffer, audio_chunks, calls, full_audio>>
    /\ UNCHANGED <<printed, ingest_vars>>

\* Variant: simple mode hands the text so far to the synthesizer after an
\* increment, without waiting for the stream to end.
IncrementSynthesizing ==
    /\ pc = "llm_next"
    /\ Len(response_chunks) < MaxIncs
    /\ \E chunk \in Increments(Len(Join(response_chunks))) :
          /\ response_chunks' = Append(response_chunks, chunk)
          /\ IF args.stream
             THEN /\ buffer' = Append(buffer, chunk)
                  /\ pc' = IF /\ BoundaryReached(Join(buffer'), chunk, args.chunk_size)
                              /\ HasSpeakableText(Join(buffer'))
                           THEN "emit"
                           ELSE "llm_next"
             ELSE /\ pc' = "simple_tts"
                  /\ UNCHANGED buffer
    /\ metrics' = IF first_token
                  THEN [metrics EXCEPT !.llm_first_token = now]
                  ELSE metrics
    /\ now' = IF first_token THEN now + 1 ELSE now
    /\ first_token' = FALSE
    /\ UNCHANGED <<args, env, user_message, context, audio_chunks, calls,
                   full_audio, out_file, result, exit_code>>
    /\ UNCHANGED <<printed, ingest_vars>>

\* Variant: streaming mode keeps every chunk for after the stream.
IncrementDeferringChunks ==
    /\ pc = "llm_next"
    /\ Len(response_chunks) < MaxIncs
    /\ \E chunk \in Increments(Len(Join(response_chunks))) :
          /\ response_chunks' = Append(response_chunks, chunk)
          /\ IF args.stream
             THEN buffer' = Append(buffer, chunk)
             ELSE UNCHANGED buffer
    /\ metrics' = IF first_token
                  THEN [metrics EXCEPT !.llm_first_token = now]
                  ELSE metrics
    /\ now' = IF first_token THEN now + 1 ELSE now
    /\ first_token' = FALSE
    /\ UNCHANGED <<args, env, user_message, context, audio_chunks, calls,
                   full_audio, out_file, result, exit_code, pc>>
    /\ UNCHANGED <<printed, ingest_vars>>

\* Variant: llm_first_token is stamped at every increment.
IncrementStampingEach ==
    /\ pc = "llm_next"
    /\ Len(response_chunks) < MaxIncs
    /\ \E chunk \in Increments(Len(Join(response_chunks))) :
          /\ response_chunks' = Append(response_chunks, chunk)
          /\ IF args.stream
             THEN /\ buffer' = Append(buffer, chunk)
                  /\ pc' = IF /\ BoundaryReached(Join(buffer'), chunk, args.chunk_size)
                              /\ HasSpeakableText(Join(buffer'))
                           THEN "emit"
                           ELSE "llm_next"
             ELSE UNCHANGED <<buffer, pc>>
    /\ metrics' = [metrics EXCEPT !.llm_first_token = now]
    /\ now' = now + 1
    /\ first_token' = FALSE
    /\ UNCHANGED <<args, env, user_message, context, audio_chunks, calls,
                   full_audio, out_file, result, exit_code>>
    /\ UNCHANGED <<printed, ingest_vars>>

\* The generator yields one increment; the consumer's loop body runs on it.
Increment ==
    /\ pc = "llm_next"
    /\ Len(response_chunks) < MaxIncs
    /\ \E chunk \in Increments(Len(Join(response_chunks))) :
          /\ response_chunks' = Append(response_chunks, chunk)
          /\ IF args.stream
             THEN /\ buffer' = Append(buffer, chunk)
                  /\ pc' = IF /\ BoundaryReached(Join(buffer'), chunk, args.chunk_size)
                              /\ HasSpeakableText(Join(buffer'))
                           THEN "emit"
                           ELSE "llm_next"
             ELSE UNCHANGED <<buffer, pc>>
    /\ metrics' = IF first_token
                  THEN [metrics EXCEPT !.llm_first_token = now]
                  ELSE metrics
    /\ now' = IF first_token THEN now + 1 ELSE now
    /\ first_token' = FALSE
    /\ UNCHANGED <<args, env, user_message, context, audio_chunks, calls,
                   full_audio, out_file, result, exit_code>>
    /\ UNCHANGED <<printed, ingest_vars>>

\* The provider stream ends.
StreamEnd ==
    /\ pc = "llm_next"
    /\ metrics' = [metrics EXCEPT !.llm_end = now]
    /\ now' = now + 1
    /\ pc' = IF args.stream THEN "tail" ELSE "simple_tts"
    /\ UNCHANGED <<args, env, user_message, context, first_token, response_chunks,
                   buffer, audio_chunks, calls, full_audio, out_file, result,
                   exit_code>>
    /\ UNCHANGED <<printed, ingest_vars>>

\* Variant: after the stream raised the remaining buffer is still flushed.
StreamErrorFlushing ==
    /\ pc = "llm_next"
    /\ pc' = "tail"
    /\ exit_code' = 1
    /\ UNCHANGED <<args, env, now, metrics, user_message, context, first_token,
                   response_chunks, buffer, audio_chunks, calls, full_audio,
                   result, out_file>>
    /\ UNCHANGED <<printed, ingest_vars>>

\* The provider stream raises while it is being read.
StreamError ==
    /\ pc = "llm_next"
    /\ Raise
    /\ UNCHANGED <<args, env, now, metrics, user_message, context, first_token,
                   response_chunks, buffer, audio_chunks, calls, full_audio>>
    /\ UNCHANGED <<printed, ingest_vars>>

\* Variant: the pipeline goes on only when text remains.
RemainingAwaited ==
    /\ pc = "tail"
    /\ HasRemainingText(buffer)
    /\ pc' = "tail_emit"
    /\ UNCHANGED <<args, env, now, metrics, user_message, context, first_token,
                   response_chunks, buffer, audio_chunks, calls, full_audio,
                   out_file, result, exit_code>>
    /\ UNCHANGED <<printed, ingest_vars>>

\* After the loop: the remaining buffer.
Remaining ==
    /\ pc = "tail"
    /\ pc' = IF HasRemainingText(buffer)
             THEN "tail_emit"
             ELSE "assemble"
    /\ UNCHANGED <<args, env, now, metrics, user_message, context, first_token,
                   response_chunks, buffer, audio_chunks, calls, full_audio,
                   out_file, result, exit_code>>
    /\ UNCHANGED <<printed, ingest_vars>>

\* Variant: an absent synthesis credential raises, as the other two do.
SynthBeginKeyRequired ==
    /\ pc \in {"emit", "tail_emit", "simple_tts"}
    /\ ~env.eleven
    /\ Raise
    /\ UNCHANGED <<args, env, now, metrics, user_message, context, first_token,
                   response_chunks, buffer, audio_chunks, calls, full_audio>>
    /\ UNCHANGED <<printed, ingest_vars>>

\* Variant: every call is given the metrics object.
SynthBeginTrackingAll ==
    /\ pc \in {"emit", "tail_emit", "simple_tts"}
    /\ LET site == CASE pc = "emit" -> "loop"
                     [] pc = "tail_emit" -> "tail"
                     [] pc = "simple_tts" -> "simple"
           text == IF site = "simple"
                   THEN Join(response_chunks)
                   ELSE Strip(Join(buffer))
           output_file == site = "simple" /\ args.output_audio
       IN  /\ calls' = Append(calls, Call(site, text, TRUE, output_file))
           /\ metrics' = [metrics EXCEPT !.tts_start = now]
           /\ now' = now + 1
           /\ IF env.eleven
              THEN /\ pc' = CallerDuring(site)
                   /\ UNCHANGED <<audio_chunks, buffer, full_audio, result>>
              ELSE Continue(site, <<>>)
    /\ UNCHANGED <<args, env, user_message, context, first_token, response_chunks,
                   out_file, exit_code>>
    /\ UNCHANGED <<printed, ingest_vars>>

\* synthesize_speech is called: up to the provider call, or to the early
\* return when the credential is absent.
SynthBegin ==
    /\ pc \in {"emit", "tail_emit", "simple_tts"}
    /\ LET site == CASE pc = "emit" -> "loop"
                     [] pc = "tail_emit" -> "tail"
                     [] pc = "simple_tts" -> "simple"
           text == IF site = "simple"
                   THEN Join(response_chunks)
                   ELSE Strip(Join(buffer))
           tracked == CASE site = "loop" -> audio_chunks = <<>>
                        [] site = "tail" -> FALSE
                        [] site = "simple" -> TRUE
           output_file == site = "simple" /\ args.output_audio
       IN  /\ calls' = Append(calls, Call(site, text, tracked, output_file))
           /\ metrics' = IF tracked
                         THEN [metrics EXCEPT !.tts_start = now]
                         ELSE metrics
           /\ now' = IF tracked THEN now + 1 ELSE now
           /\ IF env.eleven
              THEN /\ pc' = CallerDuring(site)
                   /\ UNCHANGED <<audio_chunks, buffer, full_audio, result>>
              ELSE Continue(site, <<>>)
    /\ UNCHANGED <<args, env, user_message, context, first_token, response_chunks,
                   out_file, exit_code>>
    /\ UNCHANGED <<printed, ingest_vars>>

\* The synthesis provider returns audio.
SynthOk ==
    /\ pc = "synth_call"
    /\ LET c == LastCall
           audio == AudioOf(c.text)
       IN  /\ calls' = [calls EXCEPT ![Len(calls)] =
                           [c EXCEPT !.status = "ok", !.audio = audio]]
           /\ out_file' = IF c.output_file THEN Some(audio) ELSE out_file
           /\ metrics' = IF c.tracked
                         THEN [metrics EXCEPT !.tts_end = now]
                         ELSE metrics
           /\ now' = IF c.tracked THEN now + 1 ELSE now
           /\ Continue(c.site, audio)
    /\ UNCHANGED <<args, env, user_message, context, first_token, response_chunks,
                   exit_code>>
    /\ UNCHANGED <<printed, ingest_vars>>

\* Variant: the provider's exception is not caught and leaves the pipeline.
SynthErrorRaises ==
    /\ pc = "synth_call"
    /\ calls' = [calls EXCEPT ![Len(calls)] = [LastCall EXCEPT !.status = "error"]]
    /\ Raise
    /\ UNCHANGED <<args, env, now, metrics, user_message, context, first_token,
                   response_chunks, buffer, audio_chunks, full_audio>>
    /\ UNCHANGED <<printed, ingest_vars>>

\* The synthesis provider raises: caught inside synthesize_speech.
SynthError ==
    /\ pc = "synth_call"
    /\ LET c == LastCall
       IN  /\ calls' = [calls EXCEPT ![Len(calls)] = [c EXCEPT !.status = "error"]]
           /\ metrics' = IF c.tracked
                         THEN [metrics EXCEPT !.tts_end = now]
                         ELSE metrics
           /\ now' = IF c.tracked THEN now + 1 ELSE now
           /\ Continue(c.site, <<>>)
    /\ UNCHANGED <<args, env, user_message, context, first_token, response_chunks,
                   out_file, exit_code>>
    /\ UNCHANGED <<printed, ingest_vars>>

\* Variant: the output file is written whenever a path was given.
AssembleAlwaysWriting ==
    /\ pc = "assemble"
    /\ full_audio' = JoinAudio(audio_chunks)
    /\ out_file' = IF args.output_audio THEN Some(full_audio') ELSE out_file
    /\ result' = Some(PipelineResult(user_message, Join(response_chunks),
                                     full_audio', metrics))
    /\ pc' = "report"
    /\ UNCHANGED <<args, env, now, metrics, user_message, context, first_token,
                   response_chunks, buffer, audio_chunks, calls, exit_code>>
    /\ UNCHANGED <<printed, ingest_vars>>

\* Streaming mode: the audio is combined, written and the result returned.
Assemble ==
    /\ pc = "assemble"
    /\ full_audio' = JoinAudio(audio_chunks)
    /\ out_file' = IF args.output_audio /\ full_audio' # <<>>
                   THEN Some(full_audio')
                   ELSE out_file
    /\ result' = Some(PipelineResult(user_message, Join(response_chunks),
                                     full_audio', metrics))
    /\ pc' = "report"
    /\ UNCHANGED <<args, env, now, metrics, user_message, context, first_token,
                   response_chunks, buffer, audio_chunks, calls, exit_code>>
    /\ UNCHANGED <<printed, ingest_vars>>

\* Variant: a result without audio is reported as a failure.
PrintResultsAudioRequired ==
    /\ pc = "report"
    /\ pc' = "done"
    /\ exit_code' = IF result[1].audio_size = 0 THEN 1 ELSE 0
    /\ UNCHANGED <<args, env, now, metrics, user_message, context, first_token,
                   response_chunks, buffer, audio_chunks, calls, full_audio,
                   out_file, result>>
    /\ printed' = Some(PrintedReport(result[1].metrics))
    /\ UNCHANGED ingest_vars

\* main() prints the result it was returned and ends.
PrintResults ==
    /\ pc = "report"
    /\ pc' = "done"
    /\ exit_code' = 0
    /\ UNCHANGED <<args, env, now, metrics, user_message, context, first_token,
                   response_chunks, buffer, audio_chunks, calls, full_audio,
                   out_file, result>>
    /\ printed' = Some(PrintedReport(result[1].metrics))
    /\ UNCHANGED ingest_vars

Next ==
    \/ Main
    \/ TranscribeStart
    \/ TranscribeOk
    \/ TranscribeError
    \/ RetrieveContext
    \/ GenerateStart
    \/ Increment
    \/ StreamEnd
    \/ StreamError
    \/ Remaining
    \/ SynthBegin
    \/ SynthOk
    \/ SynthError
    \/ Assemble
    \/ PrintResults

Spec == Init /\ [][Next]_vars

\* asyncio.run(main()) drives the one coroutine until it returns or raises:
\* whenever the run can take a step it does (a provider call that is awaited
\* returns or raises, a stream that is read yields or ends).
FairSpec == Spec /\ WF_vars(Next)


\* ------------------------------------------- transcript ingestion (chunking)
\* ingest_transcripts.py, chunk_segments(segments, video_id, video_title,
\* topic, target_duration, overlap).  A segment is [start, end, text], times
\* in whole seconds; the i-th segment's text is SegmentText[i].
VideoId == "vid"

SegmentText == <<"s1", "s2", "s3", "s4", "s5">>

Times == 0..MaxTime

\* Time-ordered segment lists: each segment ends no earlier than it starts
\* and starts no earlier than the one before it ended.  SegmentLists(i, t) are
\* the lists of segments numbered from i that start at t or later.
RECURSIVE SegmentLists(_, _)
SegmentLists(i, t) ==
    IF i > MaxSegs THEN {<<>>}
    ELSE {<<>>} \cup
         UNION {{<<[start |-> span[1], end |-> span[2], text |-> SegmentText[i]]>> \o rest :
                    rest \in SegmentLists(i + 1, span[2])} :
                span \in {sp \in Times \X Times : t <= sp[1] /\ sp[1] <= sp[2]}}

\* ' '.join(texts): the texts with a blank between neighbours.
RECURSIVE JoinWithBlank(_)
JoinWithBlank(texts) ==
    IF Len(texts) <= 1 THEN texts
    ELSE <<Head(texts), " ">> \o JoinWithBlank(Tail(texts))

\* f"{n:04d}": at least four decimal digits.
RECURSIVE Digits(_)
Digits(n) == IF n < 10 THEN <<n>> ELSE Append(Digits(n \div 10), n % 10)

RECURSIVE ZeroPad(_, _)
ZeroPad(d, width) == IF Len(d) >= width THEN d ELSE ZeroPad(<<0>> \o d, width)

ChunkId(video_id, index) == <<video_id, "_chunk_", ZeroPad(Digits(index), 4)>>

TranscriptChunk(index, texts, start_time, end_time) ==
    [id |-> ChunkId(VideoId, index),
     video_id |-> VideoId,
     text |-> JoinWithBlank(texts),
     start_time |-> start_time,
     end_time |-> end_time]

\* The inner loop over all segments after a chunk was cut at current_end:
\* those wholly inside the overlap window, in list order.
RECURSIVE InOverlap(_, _, _)
InOverlap(segs, overlap_start, current_end) ==
    IF segs = <<>> THEN <<>>
    ELSE LET prev_seg == Head(segs)
             rest == InOverlap(Tail(segs), overlap_start, current_end)
         IN  IF prev_seg.start >= overlap_start /\ prev_seg.end <= current_end
             THEN <<prev_seg>> \o rest
             ELSE rest

RECURSIVE MinStart(_, _)
MinStart(segs, start) ==
    IF segs = <<>> THEN start
    ELSE MinStart(Tail(segs), IF Head(segs).start < start THEN Head(segs).start ELSE start)

TextsOf(segs) == [i \in 1..Len(segs) |-> segs[i].text]

IngestInit ==
    /\ args = [audio_exists |-> TRUE, stream |-> FALSE, chunk_size |-> 1,
               language |-> "he", voice_id |-> "", output_audio |-> FALSE]
    /\ env = [openai |-> TRUE, anthropic |-> TRUE, eleven |-> TRUE]
    /\ pc = "main"
    /\ now = 1
    /\ metrics = NewMetrics
    /\ user_message = ""
    /\ context = None
    /\ first_token = TRUE
    /\ response_chunks = <<>>
    /\ buffer = <<>>
    /\ audio_chunks = <<>>
    /\ calls = <<>>
    /\ full_audio = <<>>
    /\ out_file = None
    /\ result = None
    /\ exit_code = -1
    /\ printed = None
    /\ segments \in SegmentLists(1, 0)
    /\ target_duration \in 1..MaxTarget
    /\ overlap \in 0..MaxOverlap
    /\ ipc = "call"
    /\ seg_pos = 1
    /\ chunks = <<>>
    /\ current_chunk_text = <<>>
    /\ current_start = 0
    /\ chunk_index = 0

\* chunk_segments up to its outer loop: nothing to do for an empty list.
ChunkSegments ==
    /\ ipc = "call"
    /\ IF segments = <<>>
       THEN ipc' = "returned" /\ UNCHANGED current_start
       ELSE ipc' = "loop" /\ current_start' = segments[1].start
    /\ UNCHANGED <<segments, target_duration, overlap, seg_pos, chunks,
                   current_chunk_text, chunk_index>>
    /\ UNCHANGED pipeline_vars

\* One pass of the outer loop: the segment is collected and, when the target
\* duration is reached, a chunk is cut and the next one starts with the
\* segments inside the overlap window.
LoopSegment ==
    /\ ipc = "loop"
    /\ seg_pos <= Len(segments)
    /\ LET segment == segments[seg_pos]
           texts == Append(current_chunk_text, segment.text)
           current_end == segment.end
           overlap_start == current_end - overlap
           prev_segs == InOverlap(segments, overlap_start, current_end)
       IN  IF current_end - current_start >= target_duration
           THEN /\ chunks' = Append(chunks, TranscriptChunk(chunk_index, texts,
                                                            current_start, current_end))
                /\ chunk_index' = chunk_index + 1
                /\ current_chunk_text' = TextsOf(prev_segs)
                /\ current_start' = MinStart(prev_segs, current_end)
           ELSE /\ current_chunk_text' = texts
                /\ UNCHANGED <<chunks, chunk_index, current_start>>
    /\ seg_pos' = seg_pos + 1
    /\ UNCHANGED <<segments, target_duration, overlap, ipc>>
    /\ UNCHANGED pipeline_vars

\* After the loop: what is left in current_chunk_text becomes the last chunk.
LastChunk ==
    /\ ipc = "loop"
    /\ seg_pos > Len(segments)
    /\ chunks' = IF current_chunk_text # <<>>
                 THEN Append(chunks, TranscriptChunk(chunk_index, current_chunk_text,
                                                     current_start,
                                                     segments[Len(segments)].end))
                 ELSE chunks
    /\ ipc' = "returned"
    /\ UNCHANGED <<segments, target_duration, overlap, seg_pos,
                   current_chunk_text, current_start, chunk_index>>
    /\ UNCHANGED pipeline_vars

IngestNext ==
    \/ ChunkSegments
    \/ LoopSegment
    \/ LastChunk

IngestSpec == IngestInit /\ [][IngestNext]_vars

\* ------------------------------------------------------------------ claims
Streaming == args.stream
Assembled == Streaming /\ pc \in {"report", "done"}
GenerationFailed == pc = "failed" /\ metrics.llm_start # 0
ChunkCalls == {k \in 1..Len(calls) : calls[k].site \in {"loop", "tail"}}

RECURSIVE AudioInCallOrder(_)
AudioInCallOrder(k) ==
    IF k = 0 THEN <<>> ELSE AudioInCallOrder(k - 1) \o calls[k].audio

\* C1: in streaming mode the final audio is the concatenation of the audio the
\* synthesizer returned for each chunk, in the order the chunks were created,
\* and it is assembled only when no synthesis call is still in flight.
C1_AudioInSequenceOrder ==
    /\ (Streaming /\ pc \in {"assemble", "report", "done"}) =>
          \A k \in 1..Len(calls) : calls[k].status # "inflight"
    /\ Assembled => full_audio = AudioInCallOrder(Len(calls))

C1_Witness ==
    /\ Assembled
    /\ Len(calls) >= 2
    /\ calls[1].status = "ok"
    /\ calls[2].status = "ok"
    /\ calls[1].audio # calls[2].audio

\* C2 as claimed: while chunk N's synthesis is in flight in streaming mode and
\* the generator has more to deliver, the next increment can be consumed.
C2_ConsumesWhileInFlight ==
    (/\ Streaming
     /\ Len(calls) > 0
     /\ LastCall.status = "inflight"
     /\ LastCall.site = "loop"
     /\ Len(response_chunks) < MaxIncs)
        => ENABLED Increment

\* C2 amended: in streaming mode every synthesis call is awaited where it is
\* made: while a chunk's synthesis is in flight the orchestrator is suspended
\* on it and no increment is consumed and the stream is not ended.
C2_AwaitsEachChunk ==
    \A k \in 1..Len(calls) :
        calls[k].status = "inflight" =>
            /\ k = Len(calls)
            /\ pc = "synth_call"
            /\ Len(response_chunks) = calls[k].upto
            /\ ~ENABLED Increment
            /\ ~ENABLED StreamEnd

C2_Witness ==
    /\ Streaming
    /\ Len(calls) > 0
    /\ LastCall.status = "inflight"
    /\ LastCall.site = "loop"
    /\ Len(response_chunks) < MaxIncs
    /\ Len(Join(response_chunks)) < MaxResponseLen

FailedAfterChunk ==
    /\ Streaming
    /\ GenerationFailed
    /\ Len(audio_chunks) >= 1
    /\ calls[1].status = "ok"

\* C3 as claimed: a streaming run whose generator fails after a chunk was
\* synthesized still returns a result with the text and the audio so far.
C3_PartialResultReturned ==
    FailedAfterChunk =>
        /\ result # None
        /\ result[1].response = Join(response_chunks)
        /\ result[1].audio_size = Len(Join(audio_chunks))

\* C3 amended: a streaming run whose generator fails after a chunk was
\* synthesized exits with status 1 and returns nothing: no result reaches the
\* caller and the audio already produced is not written to the output file.
C3_FailureReturnsNothing ==
    FailedAfterChunk =>
        /\ result = None
        /\ exit_code = 1
        /\ out_file = None
        /\ full_audio = <<>>

C3_Witness == FailedAfterChunk /\ response_chunks # <<>> /\ args.output_audio

Ended == pc \in {"failed", "done"}
Transcribed == metrics.stt_end # 0

\* C4 as claimed: every ended run whose transcription succeeded has returned
\* the transcript and the latency figures.
C4_AlwaysReturnsTranscript ==
    (Ended /\ Transcribed) =>
        /\ result # None
        /\ result[1].transcript = TranscriptText

\* C4 amended: an ended run whose transcription succeeded has returned the
\* transcript and the latency figures exactly when generation completed, also
\* when synthesis failed or its credential is absent; when generation failed
\* nothing is returned.
C4_ReturnsTranscriptUnlessGenerationFails ==
    (Ended /\ Transcribed) =>
        IF metrics.llm_end # 0
        THEN /\ pc = "done"
             /\ result # None
             /\ result[1].transcript = TranscriptText
             /\ result[1].metrics.stt_latency_ms
                    = (metrics.stt_end - metrics.stt_start) * 1000
             /\ result[1].metrics.rag_latency_ms
                    = (metrics.rag_end - metrics.rag_start) * 1000
             /\ result[1].metrics.llm_total_ms
                    = (metrics.llm_end - metrics.llm_start) * 1000
        ELSE pc = "failed" /\ result = None

C4_Witness ==
    /\ pc = "done"
    /\ result # None
    /\ \E k \in 1..Len(calls) : calls[k].status = "error"
    /\ result[1].transcript = TranscriptText


\* Text-level notions stated apart from the operators of the model.
IsBlank(c) == c = " "
AllBlank(t) == \A i \in 1..Len(t) : IsBlank(t[i])
IsTrimmed(t) == t # <<>> /\ ~IsBlank(t[1]) /\ ~IsBlank(t[Len(t)])
EndsSentence(t) == t # <<>> /\ t[Len(t)] \in {".", "!", "?"}

RECURSIVE DropBlanks(_)
DropBlanks(t) == IF t # <<>> /\ IsBlank(t[1]) THEN DropBlanks(Tail(t)) ELSE t

\* `full` is texts[1], texts[2], ... in order with only blanks around them.
RECURSIVE Covers(_, _)
Covers(full, texts) ==
    LET rest == DropBlanks(full)
    IN  IF texts = <<>>
        THEN rest = <<>>
        ELSE LET t == Head(texts)
             IN  /\ Len(rest) >= Len(t)
                 /\ SubSeq(rest, 1, Len(t)) = t
                 /\ Covers(SubSeq(rest, Len(t) + 1, Len(rest)), Tail(texts))

\* t is raw without the blanks at raw's two ends.
IsTrimOf(t, raw) ==
    /\ IsTrimmed(t)
    /\ \E i \in 1..Len(raw) :
          /\ i + Len(t) - 1 <= Len(raw)
          /\ SubSeq(raw, i, i + Len(t) - 1) = t
          /\ AllBlank(SubSeq(raw, 1, i - 1))
          /\ AllBlank(SubSeq(raw, i + Len(t), Len(raw)))

ChunkTexts == [k \in 1..Len(calls) |-> calls[k].text]
StreamConsumed == Streaming /\ pc \in {"assemble", "report", "done"}

\* C6 as claimed: the texts handed to the synthesizer, concatenated in
\* emission order, equal the concatenation of all increments.
C6_ChunksConcatenateToResponse ==
    StreamConsumed => Join(ChunkTexts) = Join(response_chunks)

\* C6 amended: every chunk handed to the synthesizer is a non-empty text with
\* no whitespace at its ends, and the response is these chunks in emission
\* order with nothing but whitespace before, between and after them: chunking
\* drops whitespace at chunk ends and nothing else, adds and reorders nothing.
C6_ChunksCoverResponseUpToBlanks ==
    StreamConsumed =>
        /\ \A k \in 1..Len(calls) : IsTrimmed(calls[k].text)
        /\ Covers(Join(response_chunks), ChunkTexts)

C6_Witness ==
    /\ StreamConsumed
    /\ Len(calls) >= 2
    /\ Join(ChunkTexts) # Join(response_chunks)

\* C7: in streaming mode no chunk with empty text is handed to the
\* synthesizer, whatever the increments and the threshold.
C7_NoEmptyChunk ==
    Streaming => \A k \in ChunkCalls : calls[k].text # <<>>

C7_Witness ==
    /\ Streaming
    /\ Len(calls) >= 1
    /\ response_chunks[1] # <<>>
    /\ AllBlank(response_chunks[1])
    /\ Len(response_chunks[1]) >= args.chunk_size

LengthOrSentenceEnd(buf) ==
    \/ Len(Join(buf)) >= args.chunk_size
    \/ EndsSentence(buf[Len(buf)])

HasNonBlank(buf) == ~AllBlank(Join(buf))

\* The increments received up to the last chunk cut in the loop and returned.
BufferStart ==
    LET cut == {k \in 1..Len(calls) :
                    calls[k].site = "loop" /\ calls[k].status # "inflight"}
    IN  IF cut = {} THEN 0
        ELSE calls[CHOOSE k \in cut : \A j \in cut : j <= k].upto

\* C8 as claimed: after an increment is appended, a chunk is emitted exactly
\* when the buffer has reached the threshold or the increment ends a sentence.
C8_EmitsExactlyAtBoundary ==
    Streaming =>
        /\ pc = "emit" => LengthOrSentenceEnd(buffer)
        /\ (pc = "llm_next" /\ buffer # <<>>) => ~LengthOrSentenceEnd(buffer)

\* C8 amended: after an increment is appended, a chunk is emitted exactly
\* when the buffer has reached the threshold or the increment ends a sentence
\* and the buffer holds a non-whitespace character (a whitespace-only buffer
\* is held back and keeps accumulating); the chunk is handed over before any
\* further increment is consumed, and once its synthesis has returned the
\* buffer holds only the increments received after it.
C8_EmitsAtBoundaryWhenSpeakable ==
    Streaming =>
        /\ pc = "emit" => (LengthOrSentenceEnd(buffer) /\ HasNonBlank(buffer))
        /\ (pc = "llm_next" /\ buffer # <<>>) =>
              ~(LengthOrSentenceEnd(buffer) /\ HasNonBlank(buffer))
        /\ (pc = "synth_call" /\ LastCall.site = "loop") =>
              /\ LastCall.upto = Len(response_chunks)
              /\ IsTrimOf(LastCall.text, Join(buffer))
        /\ buffer = SubSeq(response_chunks, BufferStart + 1, Len(response_chunks))

C8_Witness ==
    /\ Streaming
    /\ pc = "emit"
    /\ Len(Join(buffer)) < args.chunk_size
    /\ EndsSentence(Join(buffer))

TailCalled == Len(calls) > 0 /\ LastCall.site = "tail"

\* C9 as claimed: when the stream ends with a non-empty remaining buffer, the
\* buffer is emitted as a final chunk and synthesized.
C9_RemainderAlwaysFlushed ==
    (StreamConsumed /\ Join(buffer) # <<>>) =>
        (TailCalled /\ LastCall.status # "inflight")

\* C9 amended: when the stream ends, the remaining buffer is emitted as one
\* final chunk, stripped, and synthesized exactly when it holds a
\* non-whitespace character, also below the threshold and without a sentence
\* terminator; a remainder of whitespace only is dropped.
C9_SpeakableRemainderFlushed ==
    StreamConsumed =>
        /\ TailCalled <=> HasNonBlank(buffer)
        /\ TailCalled =>
              /\ LastCall.status # "inflight"
              /\ IsTrimOf(LastCall.text, Join(buffer))
              /\ audio_chunks[Len(audio_chunks)] = LastCall.audio
              /\ Len(audio_chunks) = Len(calls)

C9_Witness ==
    /\ StreamConsumed
    /\ TailCalled
    /\ LastCall.status = "ok"
    /\ Len(LastCall.text) < args.chunk_size
    /\ ~EndsSentence(LastCall.text)

\* C10 as claimed: a chunk longer than the threshold ends with a sentence
\* terminator.
C10_OverrunOnlyOnTerminator ==
    Streaming =>
        \A k \in ChunkCalls :
            Len(calls[k].text) > args.chunk_size => EndsSentence(calls[k].text)

\* C10 amended: increments are never split, so a chunk may exceed the
\* threshold T by the increment that reached the boundary, with or without a
\* terminator: no chunk is longer than T - 1 plus the length of the last
\* increment appended to its buffer.
C10_OverrunWithinLastIncrement ==
    Streaming =>
        \A k \in ChunkCalls :
            /\ calls[k].upto >= 1
            /\ Len(calls[k].text)
                  <= args.chunk_size - 1 + Len(response_chunks[calls[k].upto])

C10_Witness ==
    /\ Streaming
    /\ \E k \in ChunkCalls :
          /\ Len(calls[k].text) > args.chunk_size
          /\ ~EndsSentence(calls[k].text)


Returned(k) == calls[k].status # "inflight"

\* The increments chunk k was cut from: those after the previous chunk's.
ChunkSource(k) ==
    SubSeq(response_chunks,
           (IF k = 1 THEN 0 ELSE calls[k - 1].upto) + 1,
           calls[k].upto)

\* C11: in streaming mode the chunks are numbered by their place in creation
\* order, 0, 1, 2, ... without gap or repeat (chunk k - 1 is the k-th call and
\* its audio the k-th entry of audio_chunks), each chunk is cut from the
\* increments that follow the previous chunk's, and chunk k's synthesis is
\* started only after chunk k - 1's was started (and has returned).
C11_ChunksNumberedInDispatchOrder ==
    Streaming =>
        /\ Len(audio_chunks) = Cardinality({k \in 1..Len(calls) : Returned(k)})
        /\ \A k \in 1..Len(calls) :
              /\ Returned(k) => audio_chunks[k] = calls[k].audio
              /\ k > 1 => (Returned(k - 1) /\ calls[k - 1].upto < calls[k].upto)
              /\ calls[k].upto <= Len(response_chunks)
              /\ IsTrimOf(calls[k].text, Join(ChunkSource(k)))

C11_Witness ==
    /\ Streaming
    /\ Len(calls) >= 3
    /\ calls[1].audio # calls[2].audio
    /\ calls[2].status = "ok"

TranscriptionFailed == pc = "failed" /\ user_message = ""

\* C12: when transcription raises, the run ends failed with exit status 1,
\* retrieval, generation and synthesis are never entered, and stt_start is the
\* only timestamp that is set.
C12_TranscriptionFailureStopsRun ==
    TranscriptionFailed =>
        /\ exit_code = 1
        /\ result = None
        /\ context = None
        /\ response_chunks = <<>>
        /\ calls = <<>>
        /\ metrics.stt_start # 0
        /\ \A f \in DOMAIN metrics : f # "stt_start" => metrics[f] = 0

C12_Witness == TranscriptionFailed /\ env.openai

RECURSIVE AudioOfSucceeded(_)
AudioOfSucceeded(k) ==
    IF k = 0 THEN <<>>
    ELSE AudioOfSucceeded(k - 1)
            \o (IF calls[k].status = "ok" THEN <<calls[k].text>> ELSE <<>>)

\* C13: in streaming mode a chunk whose synthesis fails with a provider error
\* contributes empty audio and the call returns to the orchestrator, which
\* goes on: every later chunk is still cut and dispatched, the final audio is
\* the audio of the chunks that succeeded, in order, and the run ends with a
\* result and exit status 0.
C13_SynthesisFailureIsPerChunk ==
    Streaming =>
        /\ \A k \in 1..Len(calls) :
              calls[k].status = "error" =>
                  /\ calls[k].audio = <<>>
                  /\ Len(audio_chunks) >= k
                  /\ audio_chunks[k] = <<>>
        /\ pc = "failed" => Len(audio_chunks) = Len(calls)
        /\ StreamConsumed => Covers(Join(response_chunks), ChunkTexts)
        /\ Assembled =>
              /\ full_audio = AudioOfSucceeded(Len(calls))
              /\ result # None
              /\ result[1].audio_size = Len(full_audio)
        /\ pc = "done" => exit_code = 0

C13_Witness ==
    /\ Streaming
    /\ pc = "done"
    /\ Len(calls) >= 2
    /\ calls[1].status = "error"
    /\ calls[2].status = "ok"
    /\ full_audio # <<>>


Returns == pc \in {"report", "done"}

\* C14: with the synthesis credential absent every synthesize_speech call
\* returns zero-length audio at once and raises nothing, and a run of either
\* mode whose generation completed ends with a result of audio size 0 that
\* carries the whole response text, and with exit status 0.
C14_MissingSynthesisCredentialDegrades ==
    ~env.eleven =>
        /\ \A k \in 1..Len(calls) :
              calls[k].status = "nokey" /\ calls[k].audio = <<>>
        /\ \A k \in 1..Len(audio_chunks) : audio_chunks[k] = <<>>
        /\ pc # "synth_call"
        /\ pc = "failed" => metrics.llm_end = 0
        /\ Returns =>
              /\ Len(calls) >= 1 \/ Join(response_chunks) = <<>>
                                 \/ AllBlank(Join(response_chunks))
              /\ result # None
              /\ result[1].audio_size = 0
              /\ result[1].response = Join(response_chunks)
              /\ out_file = None
        /\ pc = "done" => exit_code = 0

C14_Witness ==
    /\ ~env.eleven
    /\ pc = "done"
    /\ Len(calls) >= 1
    /\ result[1].response # <<>>
    /\ args.output_audio

\* C15: in streaming mode the first chunk synthesized in a run is the one the
\* tts timestamps are taken around, whether it is cut in the loop or is the
\* trailing chunk, and no later chunk is; so tts_start is set in every run
\* that has synthesized a chunk.
C15_FirstChunkTimed ==
    (Streaming /\ Len(calls) >= 1) =>
        /\ calls[1].tracked
        /\ metrics.tts_start # 0
        /\ calls[1].status \in {"ok", "error"} => metrics.tts_end # 0
        /\ \A k \in 2..Len(calls) : ~calls[k].tracked

\* C16 as claimed: with the transcription or the generation credential absent
\* no stage is ever entered (no timestamp is taken, nothing is transcribed).
C16_MissingCredentialFailsAtStartup ==
    (~env.openai \/ ~env.anthropic) =>
        /\ metrics = NewMetrics
        /\ user_message = ""
        /\ context = None

\* C16 amended: the credentials are looked at inside the stages.  Without the
\* transcription credential the run fails in transcription, after stt_start
\* is taken and before the provider is called; without the generation
\* credential (transcription succeeding) transcription and retrieval run to
\* their end and the run fails when generation starts, after llm_start is
\* taken and before any increment; either way the run ends failed with exit
\* status 1, no result and no synthesis.
C16_MissingCredentialFailsInsideStage ==
    /\ ~env.openai =>
          /\ pc \in {"main", "exited", "transcribe", "failed"}
          /\ user_message = ""
          /\ \A f \in DOMAIN metrics : f # "stt_start" => metrics[f] = 0
          /\ pc = "failed" => metrics.stt_start # 0
    /\ ~env.anthropic =>
          /\ pc \in {"main", "exited", "transcribe", "stt_call", "retrieve",
                     "generate", "failed"}
          /\ response_chunks = <<>>
          /\ metrics.llm_first_token = 0
          /\ (pc = "failed" /\ user_message # "") =>
                /\ metrics.stt_end # 0
                /\ context # None
                /\ metrics.rag_end # 0
                /\ metrics.llm_start # 0
    /\ (~env.openai \/ ~env.anthropic) =>
          /\ calls = <<>>
          /\ result = None
          /\ exit_code \in {-1, 1}

C16_Witness ==
    /\ env.openai
    /\ ~env.anthropic
    /\ pc = "failed"
    /\ user_message # ""

\* C17: the process exits non-zero only when the audio file is missing, when
\* transcription fails or when generation fails; once generation has completed
\* the run ends with exit status 0, also when synthesis calls failed or the
\* synthesis credential is absent (retrieval calls no provider and never
\* fails).
C17_OnlyTranscriptionAndGenerationFail ==
    /\ exit_code = 1 =>
          \/ pc = "exited" /\ ~args.audio_exists /\ metrics = NewMetrics
          \/ pc = "failed" /\ user_message = "" /\ metrics.rag_start = 0
          \/ pc = "failed" /\ metrics.llm_start # 0 /\ metrics.llm_end = 0
    /\ metrics.llm_end # 0 => exit_code # 1
    /\ metrics.rag_start # 0 => (metrics.rag_end # 0 /\ context # None)
    /\ exit_code = 0 <=> pc = "done"
    /\ exit_code = -1 <=> pc \notin {"done", "failed", "exited"}

C17_Witness ==
    /\ pc = "done"
    /\ exit_code = 0
    /\ \E k \in 1..Len(calls) : calls[k].status \in {"error", "nokey"}
    /\ result[1].audio_size = 0


Before(start, end) == start # 0 => (end # 0 /\ end < start)

Duration(start, end) == IF end = 0 THEN 0 ELSE (end - start) * 1000

\* C18: in simple mode the stages run one after another (each starts after
\* the one before it ended), the chunker is not used, and the synthesizer is
\* called exactly once in a run that returns: after the generator stream has
\* ended, with the concatenation of all increments as its text.
C18_SimpleModeSynthesizesOnceAfterGeneration ==
    ~args.stream =>
        /\ Len(calls) <= 1
        /\ buffer = <<>>
        /\ audio_chunks = <<>>
        /\ \A k \in 1..Len(calls) :
              /\ calls[k].site = "simple"
              /\ calls[k].tracked
              /\ calls[k].upto = Len(response_chunks)
              /\ calls[k].text = Join(response_chunks)
              /\ metrics.llm_end # 0
              /\ metrics.llm_end < metrics.tts_start
        /\ pc = "llm_next" => calls = <<>>
        /\ Returns => Len(calls) = 1
        /\ Before(metrics.rag_start, metrics.stt_end)
        /\ Before(metrics.llm_start, metrics.rag_end)
        /\ Before(metrics.tts_start, metrics.llm_end)
        /\ metrics.stt_end # 0 => metrics.stt_start < metrics.stt_end
        /\ metrics.rag_end # 0 => metrics.rag_start < metrics.rag_end
        /\ metrics.llm_end # 0 => metrics.llm_start < metrics.llm_end
        /\ metrics.tts_end # 0 => metrics.tts_start < metrics.tts_end

C18_Witness ==
    /\ ~args.stream
    /\ pc = "done"
    /\ Len(response_chunks) >= 2
    /\ calls[1].status = "ok"
    /\ calls[1].text = Join(response_chunks)

\* C19: each of the five stage figures of a returned latency report (STT, RAG,
\* LLM first token, LLM total, TTS) is 0 when the stage's end timestamp was
\* never set and otherwise is end minus start, in milliseconds.
C19_UnfinishedStageReportsZero ==
    result # None =>
        LET r == result[1].metrics
            m == metrics
        IN  /\ r.stt_latency_ms = Duration(m.stt_start, m.stt_end)
            /\ r.rag_latency_ms = Duration(m.rag_start, m.rag_end)
            /\ r.llm_first_token_ms = Duration(m.llm_start, m.llm_first_token)
            /\ r.llm_total_ms = Duration(m.llm_start, m.llm_end)
            /\ r.tts_latency_ms = Duration(m.tts_start, m.tts_end)
            /\ \A f \in DOMAIN r : r[f] >= 0

C19_Witness ==
    /\ result # None
    /\ metrics.tts_start # 0
    /\ metrics.tts_end = 0
    /\ result[1].metrics.tts_latency_ms = 0
    /\ result[1].metrics.llm_total_ms > 0

\* C20: every synthesis call of a run uses the voice identifier the caller
\* supplied, and the default voice of the language only when none was
\* supplied.
C20_SuppliedVoiceUsed ==
    \A k \in 1..Len(calls) :
        calls[k].voice_id = IF args.voice_id # ""
                            THEN args.voice_id
                            ELSE VoiceFor(args.language)


\* C21 as claimed: a completed run that was given an output audio path has
\* written the final audio to it, also when that audio is empty.
C21_OutputAlwaysWritten ==
    (pc = "done" /\ args.output_audio) => out_file = Some(full_audio)

\* C21 amended: the output file is written only when there is audio.  A
\* completed run that was given an output path has written the final audio
\* to it exactly when that audio is not empty (streaming mode: the joined
\* audio; simple mode: the provider call returned audio); a run that ends
\* with no audio, because the credential is absent or every call failed,
\* leaves no file.  Without an output path no file is written.
C21_OutputWrittenWhenAudio ==
    /\ Returns =>
          out_file = IF args.output_audio /\ full_audio # <<>>
                     THEN Some(full_audio)
                     ELSE None
    /\ ~Returns => (out_file # None => (~Streaming /\ LastCall.status = "ok"))
    /\ pc = "failed" => out_file = None

C21_Witness ==
    /\ pc = "done"
    /\ args.output_audio
    /\ Len(calls) >= 1
    /\ \A k \in 1..Len(calls) : calls[k].status \in {"nokey", "error"}
    /\ full_audio = <<>>
    /\ out_file = None

\* C26: the latency report main prints after a run shows for every stage the
\* figure of the result's metrics it was rebuilt from.
C26_PrintedReportMatchesResult ==
    printed # None => printed[1] = result[1].metrics


\* C22: in streaming mode a chunk cut while the stream is running is handed
\* to the synthesizer at once: from the point where it is cut the only step
\* is its dispatch, which happens before the next increment is requested and
\* before llm_end is recorded; and no buffer that reached a boundary with
\* speakable text is kept waiting for a further increment.
C22_ChunkDispatchedDuringStream ==
    Streaming =>
        /\ pc = "emit" =>
              /\ metrics.llm_end = 0
              /\ ENABLED SynthBegin
              /\ ~ENABLED Increment
              /\ ~ENABLED StreamEnd
        /\ \A k \in 1..Len(calls) :
              calls[k].site = "loop" =>
                 /\ calls[k].upto >= 1
                 /\ calls[k].status = "inflight" =>
                       (metrics.llm_end = 0 /\ Len(response_chunks) = calls[k].upto)
                 /\ (calls[k].tracked /\ metrics.llm_end # 0) =>
                       metrics.tts_start < metrics.llm_end
        /\ (pc \in {"llm_next", "tail"} /\ buffer # <<>>) =>
              ~(LengthOrSentenceEnd(buffer) /\ HasNonBlank(buffer))

C22_Witness ==
    /\ Streaming
    /\ pc = "synth_call"
    /\ LastCall.site = "loop"
    /\ LastCall.tracked
    /\ metrics.llm_end = 0
    /\ metrics.tts_start # 0
    /\ Len(response_chunks) = 1

\* C23: in streaming mode, once generation has failed the run is over: no
\* synthesis call is started after the failure, the text left in the buffer
\* is not synthesized, and every call dispatched before the failure had
\* already returned.
C23_NoSynthesisAfterGenerationFails ==
    (Streaming /\ exit_code = 1 /\ metrics.llm_start # 0) =>
        /\ pc = "failed"
        /\ metrics.llm_end = 0
        /\ ~ENABLED SynthBegin
        /\ ~ENABLED SynthOk
        /\ ~ENABLED SynthError
        /\ Len(audio_chunks) = Len(calls)
        /\ \A k \in 1..Len(calls) :
              /\ calls[k].site = "loop"
              /\ calls[k].status # "inflight"
              /\ calls[k].upto <= Len(response_chunks)

C23_Witness ==
    /\ Streaming
    /\ pc = "failed"
    /\ Len(calls) >= 1
    /\ calls[1].status = "ok"
    /\ buffer # <<>>
    /\ HasNonBlank(buffer)

\* The stage of the request.  Synthesis of a chunk cut in the loop belongs to
\* Generating; what follows the end of the stream, up to the return of the
\* result, to Assembling.
Stage ==
    CASE pc = "main" -> "Idle"
      [] pc = "exited" -> "Exited"
      [] pc \in {"transcribe", "stt_call"} -> "Transcribing"
      [] pc = "retrieve" -> "RetrievingContext"
      [] pc \in {"generate", "llm_next", "emit"} -> "Generating"
      [] pc = "synth_call" ->
            IF LastCall.site = "loop" THEN "Generating" ELSE "Assembling"
      [] pc \in {"tail", "tail_emit", "simple_tts", "assemble"} -> "Assembling"
      [] pc \in {"report", "done"} -> "Done"
      [] pc = "failed" -> "Failed"

StageOrder ==
    <<"Idle", "Transcribing", "RetrievingContext", "Generating", "Assembling",
      "Done">>

\* C24: every step of a run stays in its stage or enters the next one of
\* Idle, Transcribing, RetrievingContext, Generating, Assembling, Done, or
\* enters Failed from Transcribing or from Generating (or leaves Idle by the
\* exit for a missing audio file); Done, Failed and that exit are left by no
\* step.
C24_StagesInOrder ==
    [][\/ Stage' = Stage
       \/ \E i \in 1..(Len(StageOrder) - 1) :
             Stage = StageOrder[i] /\ Stage' = StageOrder[i + 1]
       \/ Stage \in {"Transcribing", "Generating"} /\ Stage' = "Failed"
       \/ Stage = "Idle" /\ Stage' = "Exited"]_vars

C24_Witness ==
    /\ Stage = "Done"
    /\ Streaming
    /\ context # None
    /\ Len(calls) >= 2
    /\ calls[1].site = "loop"
    /\ LastCall.site = "tail"

\* C25: llm_start is set before the first increment is requested;
\* llm_first_token is set at the first increment received, once (nothing is
\* stamped between llm_start and it, and it is unset while no increment has
\* arrived); llm_end is set exactly when the stream has completed and stays
\* unset in a run whose stream failed.
C25_GenerationTimestamps ==
    /\ pc \in {"llm_next", "emit"} => (metrics.llm_start # 0 /\ metrics.llm_end = 0)
    /\ first_token <=> response_chunks = <<>>
    /\ metrics.llm_first_token # 0 <=> response_chunks # <<>>
    /\ metrics.llm_first_token # 0 =>
          /\ metrics.llm_start # 0
          /\ metrics.llm_first_token = metrics.llm_start + 1
          /\ metrics.tts_start # 0 => metrics.llm_first_token < metrics.tts_start
    /\ metrics.llm_end # 0 <=> Stage \in {"Assembling", "Done"}
    /\ metrics.llm_end # 0 =>
          /\ metrics.llm_start < metrics.llm_end
          /\ metrics.llm_first_token < metrics.llm_end
    /\ pc = "failed" => metrics.llm_end = 0

C25_Witness ==
    /\ pc = "done"
    /\ Len(response_chunks) >= 2
    /\ metrics.llm_first_token = metrics.llm_start + 1
    /\ metrics.llm_end > metrics.llm_first_token + 1


RECURSIVE NonBlanks(_)
NonBlanks(t) ==
    IF t = <<>> THEN <<>>
    ELSE IF IsBlank(Head(t)) THEN NonBlanks(Tail(t))
    ELSE <<Head(t)>> \o NonBlanks(Tail(t))

\* C27: in streaming mode the texts handed to the synthesizer, concatenated
\* in order and with whitespace removed, equal the full response with
\* whitespace removed once the stream is consumed; while it is running they
\* equal it together with what the buffer still holds.
C27_ChunkingKeepsNonWhitespace ==
    Streaming =>
        /\ StreamConsumed =>
              NonBlanks(Join(ChunkTexts)) = NonBlanks(Join(response_chunks))
        /\ pc \in {"llm_next", "emit", "tail", "tail_emit"} =>
              NonBlanks(Join(ChunkTexts)) \o NonBlanks(Join(buffer))
                 = NonBlanks(Join(response_chunks))

C27_Witness ==
    /\ StreamConsumed
    /\ Len(calls) >= 2
    /\ Len(NonBlanks(Join(response_chunks))) >= 2
    /\ Len(Join(ChunkTexts)) < Len(Join(response_chunks))
    /\ IsBlank(response_chunks[1][1])

Terminal == pc \in {"done", "failed", "exited"}

\* C28: every run of either mode eventually reaches a terminal outcome: the
\* result is printed, a failure is reported, or the process has exited for a
\* missing audio file.
C28_RunTerminates == <>Terminal

C28_Witness ==
    /\ Terminal
    /\ pc = "done"
    /\ Streaming
    /\ Len(response_chunks) = MaxIncs
    /\ printed # None

TrackedCalls == {k \in 1..Len(calls) : calls[k].tracked}

\* C29: in a completed streaming run in which tts_end was set, it was set
\* before llm_end, around the one timed call, which is the first chunk cut
\* in the loop; so the reported total_latency_ms, (tts_end - stt_start) in
\* milliseconds, is less than the time from stt_start to llm_end.
C29_TotalLatencyEndsAtFirstChunk ==
    (Assembled /\ metrics.tts_end # 0) =>
        /\ metrics.tts_end < metrics.llm_end
        /\ TrackedCalls = {1}
        /\ calls[1].site = "loop"
        /\ result[1].metrics.total_latency_ms =
              (metrics.tts_end - metrics.stt_start) * 1000
        /\ result[1].metrics.total_latency_ms <
              (metrics.llm_end - metrics.stt_start) * 1000

C29_Witness ==
    /\ Assembled
    /\ metrics.tts_end # 0
    /\ Len(calls) >= 3
    /\ calls[2].status = "ok"
    /\ calls[3].site = "tail"
    /\ calls[3].status = "ok"


ChunkingReturned == ipc = "returned"

ChunkContains(chunk, text) == \E p \in 1..Len(chunk.text) : chunk.text[p] = text

IdsConsecutive ==
    \A k \in 1..Len(chunks) : chunks[k].id = ChunkId(VideoId, k - 1)

EverySegmentInAChunk ==
    \A i \in 1..Len(segments) :
        \E k \in 1..Len(chunks) : ChunkContains(chunks[k], segments[i].text)

EveryChunkHasANewSegment ==
    \A k \in 1..Len(chunks) :
        \E i \in 1..Len(segments) :
            /\ ChunkContains(chunks[k], segments[i].text)
            /\ \A j \in 1..(k - 1) : ~ChunkContains(chunks[j], segments[i].text)

\* C30: for every time-ordered segment list chunk_segments returns chunks
\* with the consecutive ids 0000, 0001, ..., every segment's text is in at
\* least one chunk, and every chunk holds at least one segment that no earlier
\* chunk holds.
C30_ChunksNumberedCoveringAndNew ==
    ChunkingReturned =>
        /\ IdsConsecutive
        /\ EverySegmentInAChunk
        /\ EveryChunkHasANewSegment

====
